---- MODULE Spec2Model ----
(***************************************************************************)
(* A model of the in-memory rate limiter of src/fastlimiter.go.            *)
(*                                                                         *)
(* State: the two maps of FastLimiter (store, status), the objects they    *)
(* point to (limiterCacheItem, statusCacheItem) kept in two heaps because  *)
(* the code mutates them through pointers it fetched earlier, the clock,   *)
(* and for every goroutine the position and the local variables of the     *)
(* call it is executing.  One step of a goroutine is one access to shared  *)
(* memory: one map operation under the lock or one atomic operation.       *)
(* Time is counted in milliseconds, the unit of the policy arguments.      *)
(***************************************************************************)
EXTENDS Integers, Sequences, FiniteSets, TLC

VARIABLES now, store, status, items, sitems, loc, seen

vars == <<now, store, status, items, sitems, loc, seen>>

(* ------------------------------ bounds -------------------------------- *)

\* Number of goroutines that call the limiter.
NProcs == 2
\* The clock stops at MaxTime.
MaxTime == 4
\* No Get is started on a window that already served MaxHits calls.
MaxHits == 4
\* The concurrent specification of two tiers starts MaxTierGets Gets of an
\* identifier.
MaxTierGets == 3
\* The concurrent specifications of two identifiers and of Clean start
\* MaxIdGets Gets of each identifier.
MaxIdGets == 2

Procs == 1..NProcs

(* ------------------------ program constants --------------------------- *)

\* New: options.Max when left 0.
DefaultMax == 1000
\* New: options.Duration when left 0 (time.Minute), in milliseconds.
DefaultDuration == 60000
\* New: options.Prefix when left "".
Prefix == "limit:"

(* ------------------------------ inputs -------------------------------- *)

Ids == {"x"}

\* Identifiers of the concurrent specification of distinct identifiers.
ManyIds == {"x", "y"}

\* Policies of the sequential specification: the empty one and the single
\* tier it stands for, single tiers, an odd one, non-positive ones, two and
\* three tiers.
SeqPolicies ==
    { <<>>, <<1000, 60000>>, <<2, 1>>, <<1, 2>>, <<2, 1, 1>>, <<-1, 1>>,
      <<1, 0>>, <<2, 1, 1, 2>>, <<2, 1, 1, 1>>, <<3, 1, 2, 1, 1, 1>> }

\* Policies of the concurrent specification: one tier, and an odd one.
ConcPolicies == { <<2, 2>>, <<2, 1, 1>> }

\* Policy of the concurrent specification of a window that admits three
\* calls.
LivePolicies == { <<3, 2>> }

\* Policy of the concurrent specification of distinct identifiers.
IdPolicies == { <<2, 2>> }

\* Policy of the concurrent specification of Clean.
CleanPolicies == { <<1, 1>> }

\* Policy of the concurrent specification of two tiers.
TierPolicies == { <<2, 1, 1, 2>> }

\* Two identifiers, one of which is the key of the other.
PrefixIds == { "x", "limit:x" }

\* The policy of the calls for them: two tiers.
PrefixPolicies == { <<1, 1, 1, 1>> }

(* ------------------------------ helpers ------------------------------- *)

MapPut(m, k, v) == [x \in DOMAIN m \cup {k} |-> IF x = k THEN v ELSE m[x]]

MapDel(m, k) == [x \in DOMAIN m \ {k} |-> m[x]]

\* The objects of a heap that something still points to: the others are
\* garbage, which the runtime collects.
Keep(heap, refs) == [a \in DOMAIN heap \cap refs |-> heap[a]]

\* The address of a new object.
Alloc(heap) ==
    CHOOSE a \in 1..(Cardinality(DOMAIN heap) + 1) :
        a \notin DOMAIN heap /\ \A b \in 1..(a - 1) : b \in DOMAIN heap

\* A variant of Key that leaves the identifier out.
KeyOfPrefix(id) == Prefix

\* Get, Remove: key := l.options.Prefix + id
Key(id) == Prefix \o id

\* Remove, initCacheItem: statusKey := "{" + key + "}:S"
StatusKey(key) == "{" \o key \o "}:S"

\* A variant of IsOdd that rejects a single value only.
IsOddOne(length) == length = 1

\* Get: odd := length % 2; odd == 1
IsOdd(length) == length % 2 = 1

\* A variant of Effective that takes the duration in seconds.
EffectiveSeconds(policy) ==
    IF Len(policy) = 0 THEN <<DefaultMax, DefaultDuration \div 1000>> ELSE policy

\* Get: an empty policy is replaced by the options' single tier.
Effective(policy) ==
    IF Len(policy) = 0 THEN <<DefaultMax, DefaultDuration>> ELSE policy

\* A variant of ExpireBefore that counts the instant of Expire as past.
ExpireBeforeOrAt(expire, t) == expire <= t

\* A variant of ExpireBefore that keeps an item one millisecond too long.
ExpireBeforeLate(expire, t) == expire + 1 < t

\* getLimit: res.Expire.Before(time.Now())
ExpireBefore(expire, t) == expire < t

\* getLimit: atomic.LoadInt32(&res.Remaining) == -1
Exhausted(remaining) == remaining = -1

\* A variant of Decrement that takes two.
DecrementTwice(remaining) == remaining - 2

\* getLimit: atomic.AddInt32(&res.Remaining, -1)
Decrement(remaining) == remaining - 1

\* A variant of Tiered that takes one tier for several.
TieredAlways(policyCount) == policyCount >= 1

\* initCacheItem: if policyCount > 1
Tiered(policyCount) == policyCount > 1

\* A variant of BumpIndex that stays at the last tier.
BumpIndexPinned(current, index, policyCount) ==
    IF index >= policyCount THEN current ELSE current + 1

\* A variant of BumpIndex that never increments.
BumpIndexStuck(current, index, policyCount) ==
    IF index >= policyCount THEN 1 ELSE current

\* initCacheItem: if index >= policyCount { Store(1) } else { Add(1) },
\* the value of statusItem.Index after it, given the value before.
BumpIndex(current, index, policyCount) ==
    IF index >= policyCount THEN 1 ELSE current + 1

\* Remove: delete(l.store, key)
RemoveStore(st, key) == MapDel(st, key)

\* A variant of RemoveStatus that deletes nothing.
RemoveStatusKept(st, statusKey) == st

\* Remove: delete(l.status, statusKey)
RemoveStatus(st, statusKey) == MapDel(st, statusKey)

\* initCacheItem: Remaining: total - 1
FreshRemaining(total) == total - 1

\* initCacheItem: Expire of a status item, time.Now() + 2 * duration
StatusExpire(t, duration) == t + duration * 2

\* initCacheItem: Expire of a cache item, time.Now() + duration
ItemExpire(t, duration) == t + duration

\* The local variables of a goroutine that has made no call yet.  After a
\* call they hold the call and its Result.  The fields from pre on are
\* history: they record what the call saw and do not exist in the code.
\*   pre    the cache item the call found in the store, if any: its tier,
\*          whether more than its window had elapsed since it started,
\*          whether it had served as many calls as its quota, whether the
\*          policy that made it is the call's
\*   spre   the status item of the identifier when the call started, if
\*          any: its index, and whether its Expire had passed
\*   fresh  the call made a new cache item; tier: from which tier
\*   k      how many calls the cache item that served the call had served
\*   g0     GetsBefore when the call started
\*   afterRemove  the goroutine's previous call was Remove of this id;
\*          removed: the index of the status item it found, 0 for none
\*   overlap  another call was between its check of Remaining and its
\*          decrement of the same cache item when this one was
\*   edge   the cache item the call found had its Expire at the very
\*          instant getLimit compared it with the clock
\*   live   the cache item the call found had its Expire at or after the
\*          clock at that instant
\*   wstart the instant the cache item that served the call was made
\*   own    the Remaining the call's own decrement left, if it made one
\*   had    the Total, Duration and Expire of the cache item the call found
\*          in the store, if any
\* Clean keeps the keys its range statement has produced in visited, the
\* store map as its last step left it in snap, whether another goroutine
\* wrote the map since it began in dirty (history), and the instant it
\* began in swept (history).  found and sfound are what the two maps held
\* when it began, the Expire of each cache item and the Index of each
\* status item, and ended the instant it returned (history).
Idle ==
    [ pc |-> "idle", op |-> "none", id |-> "", key |-> "", policy |-> <<>>,
      args |-> <<>>, res |-> 0, sitem |-> 0, index |-> 0, total |-> 0,
      duration |-> 0, newIndex |-> 0,
      err |-> FALSE, rTotal |-> 0, rRemaining |-> 0, rDuration |-> 0,
      rReset |-> 0,
      pre |-> <<>>, spre |-> <<>>, fresh |-> FALSE, tier |-> 0,
      k |-> 0, g0 |-> -1, afterRemove |-> FALSE, removed |-> 0,
      overlap |-> FALSE, edge |-> FALSE, live |-> FALSE,
      own |-> <<>>, wstart |-> 0, had |-> <<>>,
      visited |-> {}, snap |-> <<>>, dirty |-> FALSE, swept |-> 0,
      found |-> <<>>, sfound |-> <<>>, ended |-> 0 ]

\* A program that panicked has stopped.
Crashed == \E p \in Procs : loc[p].pc = "panic"

\* The goroutine is in no call.
Ready(p) == loc[p].pc \in {"idle", "done"}

InFlight(p) == loc[p].pc \notin {"idle", "done", "panic"}

\* The heaps after a step, without the objects nothing points to any more.
Finish(it, si) ==
    /\ items' = Keep(it, {store'[x] : x \in DOMAIN store'}
                           \cup {loc'[q].res : q \in Procs})
    /\ sitems' = Keep(si, {status'[x] : x \in DOMAIN status'}
                            \cup {loc'[q].sitem : q \in Procs})

(* ------------------------------- Init --------------------------------- *)

\* New: both maps are empty.
Init ==
    /\ now = 0
    /\ store = [x \in {} |-> 0]
    /\ status = [x \in {} |-> 0]
    /\ items = [a \in {} |-> 0]
    /\ sitems = [a \in {} |-> 0]
    /\ loc = [p \in Procs |-> Idle]
    /\ seen = [x \in {} |-> 0]

(* --------------------- history kept for the claims -------------------- *)

\* seen[key] exists from the first Get of an identifier nothing is stored
\* for until its Remove: the policy every Get used, the number of Gets
\* that returned, the instant of the first one.  Lost: the Gets used
\* different policies, or a Remove ran during a Get.
Lost == [pol |-> <<>>, gets |-> 0, t1 |-> 0, ok |-> FALSE]

OthersInFlight(p, key) ==
    \E q \in Procs \ {p} : InFlight(q) /\ loc[q].op = "Get" /\ loc[q].key = key

SeenAtCall(key, policy) ==
    IF key \notin DOMAIN seen
    THEN MapPut(seen, key, [pol |-> policy, gets |-> 0, t1 |-> now, ok |-> TRUE])
    ELSE IF seen[key].ok /\ seen[key].pol = policy
         THEN seen
         ELSE MapPut(seen, key, Lost)

SeenAtReturn(key) ==
    IF key \in DOMAIN seen /\ seen[key].ok /\ seen[key].gets < MaxHits
    THEN MapPut(seen, key, [seen[key] EXCEPT !.gets = @ + 1])
    ELSE MapPut(seen, key, Lost)

SeenAtRemove(p, key) ==
    IF OthersInFlight(p, key) THEN MapPut(seen, key, Lost) ELSE MapDel(seen, key)

\* The number of Gets that returned for the key when a call starts, when
\* they all used this policy and none is running; -1 otherwise.
GetsBefore(p, key, policy) ==
    IF key \notin DOMAIN seen THEN 0
    ELSE IF seen[key].ok /\ seen[key].pol = policy /\ ~OthersInFlight(p, key)
         THEN seen[key].gets
         ELSE -1

\* Another call stands between the check and the decrement of the cache
\* item this call is about to decrement, or stood there with this one.
Overlaps(p) ==
    \E q \in Procs \ {p} :
        /\ loc[q].res = loc[p].res
        /\ \/ loc[q].pc = "addRemaining"
           \/ loc[q].pc = "getResult" /\ loc[q].overlap

\* The number of identifiers Gets were made for and none removed, when no
\* Get is running; -1 otherwise.
UsedIds ==
    IF \E q \in Procs : InFlight(q) THEN -1
    ELSE Cardinality({id \in ManyIds : Key(id) \in DOMAIN seen})

\* The clock stands at the Expire of the cache item the call found.
AtEdge(l) == items[l.res].Expire = now

\* The clock has not passed the Expire of the cache item the call found.
StillLive(l) == items[l.res].Expire >= now

PreOf(key, args) ==
    IF key \in DOMAIN store
    THEN LET it == items[store[key]] IN
         << [tier |-> it.tier, late |-> it.start + it.Duration < now,
             used |-> it.hits >= it.Total, same |-> it.args = args] >>
    ELSE <<>>

HadOf(key) ==
    IF key \in DOMAIN store
    THEN LET it == items[store[key]] IN
         << [Total |-> it.Total, Duration |-> it.Duration,
             Expire |-> it.Expire] >>
    ELSE <<>>

SPreOf(key) ==
    IF StatusKey(key) \in DOMAIN status
    THEN LET st == sitems[status[StatusKey(key)]] IN
         << [Index |-> st.Index, late |-> st.Expire < now,
             addr |-> status[StatusKey(key)]] >>
    ELSE <<>>

(* ------------------------------ actions ------------------------------- *)

\* Get up to the map read of getLimit (getMapValue).  An odd number of
\* policy values returns the error and the zero Result at once.
GetCall(p, id, policy) ==
    /\ ~Crashed
    /\ Ready(p)
    /\ Key(id) \in DOMAIN store => items[store[Key(id)]].hits < MaxHits
    /\ LET key == Key(id)
           call == [Idle EXCEPT !.op = "Get", !.id = id, !.key = key,
                                !.policy = policy]
       IN
       IF IsOdd(Len(policy))
       THEN /\ loc' = [loc EXCEPT ![p] = [call EXCEPT !.pc = "done", !.err = TRUE]]
            /\ UNCHANGED <<now, store, status, items, sitems, seen>>
       ELSE /\ loc' = [loc EXCEPT ![p] =
                         [call EXCEPT !.pc = IF key \in DOMAIN store
                                             THEN "getLimit" ELSE "initCacheItem",
                                      !.args = Effective(policy),
                                      !.res = IF key \in DOMAIN store
                                              THEN store[key] ELSE 0,
                                      !.pre = PreOf(key, Effective(policy)),
                                      !.spre = SPreOf(key),
                                      !.had = HadOf(key),
                                      !.g0 = GetsBefore(p, key, policy),
                                      !.afterRemove = /\ loc[p].op = "Remove"
                                                      /\ loc[p].key = key,
                                      !.removed =
                                          IF /\ loc[p].op = "Remove"
                                             /\ loc[p].key = key
                                             /\ loc[p].spre # <<>>
                                          THEN loc[p].spre[1].Index ELSE 0]]
            /\ seen' = SeenAtCall(key, policy)
            /\ UNCHANGED <<now, store, status>>
            /\ Finish(items, sitems)

\* getLimit after the map read found an item: an expired one starts a
\* fresh window; a live one at -1 is returned as it is; a live one above is
\* decremented in the next step.
GetLimit(p) ==
    /\ ~Crashed
    /\ loc[p].pc = "getLimit"
    /\ LET l == loc[p] IN
       IF ExpireBefore(items[l.res].Expire, now)
       THEN /\ loc' = [loc EXCEPT ![p].pc = "initCacheItem", ![p].res = 0,
                                  ![p].edge = AtEdge(l),
                                  ![p].live = StillLive(l)]
            /\ UNCHANGED <<now, store, status, seen>>
            /\ Finish(items, sitems)
       ELSE IF Exhausted(items[l.res].Remaining)
       THEN /\ loc' = [loc EXCEPT ![p].pc = "getResult",
                                  ![p].k = items[l.res].hits + 1,
                                  ![p].edge = AtEdge(l),
                                  ![p].live = StillLive(l)]
            /\ UNCHANGED <<now, store, status, seen>>
            /\ Finish([items EXCEPT ![l.res].hits = @ + 1], sitems)
       ELSE /\ loc' = [loc EXCEPT ![p].pc = "addRemaining",
                                  ![p].edge = AtEdge(l),
                                  ![p].live = StillLive(l)]
            /\ UNCHANGED <<now, store, status, seen>>
            /\ Finish(items, sitems)

\* getLimit: atomic.AddInt32(&res.Remaining, -1)
AddRemaining(p) ==
    /\ ~Crashed
    /\ loc[p].pc = "addRemaining"
    /\ LET l == loc[p] IN
       /\ loc' = [loc EXCEPT ![p].pc = "getResult",
                             ![p].k = items[l.res].hits + 1,
                             ![p].overlap = Overlaps(p),
                             ![p].own = <<Decrement(items[l.res].Remaining)>>]
       /\ UNCHANGED <<now, store, status, seen>>
       /\ Finish([items EXCEPT ![l.res].Remaining = Decrement(@),
                               ![l.res].hits = @ + 1], sitems)

\* getResult: the Result is read from the item getLimit returned, and Get
\* returns it.
GetResult(p) ==
    /\ ~Crashed
    /\ loc[p].pc = "getResult"
    /\ LET l == loc[p] IN
       /\ loc' = [loc EXCEPT ![p] =
                    [Idle EXCEPT !.pc = "done", !.op = "Get", !.id = l.id,
                                 !.key = l.key, !.policy = l.policy,
                                 !.args = l.args,
                                 !.rRemaining = items[l.res].Remaining,
                                 !.rTotal = items[l.res].Total,
                                 !.rDuration = items[l.res].Duration,
                                 !.rReset = items[l.res].Expire,
                                 !.pre = l.pre, !.spre = l.spre,
                                 !.fresh = l.fresh, !.tier = l.tier,
                                 !.k = l.k, !.g0 = l.g0,
                                 !.afterRemove = l.afterRemove,
                                 !.removed = l.removed,
                                 !.overlap = l.overlap,
                                 !.edge = l.edge, !.live = l.live,
                                 !.own = l.own, !.had = l.had,
                                 !.wstart = items[l.res].start]]
       /\ seen' = SeenAtReturn(l.key)
       /\ UNCHANGED <<now, store, status>>
       /\ Finish([items EXCEPT ![l.res].rets = @ + 1], sitems)

\* initCacheItem: the new cache item and setMapValue.
Publish(p, l) ==
    LET a == Alloc(items)
        item == [Total |-> l.total, Remaining |-> FreshRemaining(l.total),
                 Duration |-> l.duration,
                 Expire |-> ItemExpire(now, l.duration),
                 start |-> now, tier |-> l.tier, args |-> l.args,
                 pol |-> l.policy,
                 hits |-> 1, rets |-> 0,
                 raced |-> \E q \in Procs \ {p} :
                              InFlight(q) /\ loc[q].key # l.key]
    IN
    /\ store' = MapPut(store, l.key, a)
    /\ loc' = [loc EXCEPT ![p] = [l EXCEPT !.pc = "getResult", !.res = a,
                                           !.fresh = TRUE, !.k = 1]]
    /\ UNCHANGED <<now, status, seen>>
    /\ Finish([x \in DOMAIN items \cup {a} |->
                  IF x = a THEN item ELSE items[x]], sitems)

\* initCacheItem.  A policy of one tier makes the cache item from it; a
\* policy of several tiers first reads the status map (getStatusMapValue).
InitCacheItem(p) ==
    /\ ~Crashed
    /\ loc[p].pc = "initCacheItem"
    /\ LET l == [loc[p] EXCEPT !.total = loc[p].args[1],
                               !.duration = loc[p].args[2], !.tier = 1]
           policyCount == Len(l.args) \div 2
           statusKey == StatusKey(l.key)
           found == statusKey \in DOMAIN status
       IN
       IF Tiered(policyCount)
       THEN /\ loc' = [loc EXCEPT ![p] =
                         [l EXCEPT !.sitem = IF found THEN status[statusKey] ELSE 0,
                                   !.pc = IF found THEN "statusLoad"
                                                   ELSE "statusInit"]]
            /\ UNCHANGED <<now, store, status, seen>>
            /\ Finish(items, sitems)
       ELSE Publish(p, l)

\* initCacheItem, no status item found: one of index 1 is stored, and
\* statusItem stays nil.  A status item keeps the instant it was made in
\* sel and the Index it was made with in made (history).
StatusInit(p) ==
    /\ ~Crashed
    /\ loc[p].pc = "statusInit"
    /\ LET l == loc[p]
           a == Alloc(sitems)
           item == [Index |-> 1, Expire |-> StatusExpire(now, l.duration),
                    sel |-> now, made |-> 1]
       IN
       /\ status' = MapPut(status, StatusKey(l.key), a)
       /\ loc' = [loc EXCEPT ![p].pc = "newItem"]
       /\ UNCHANGED <<now, store, seen>>
       /\ Finish(items, [x \in DOMAIN sitems \cup {a} |->
                            IF x = a THEN item ELSE sitems[x]])

\* initCacheItem: index := atomic.LoadInt32(&statusItem.Index)
StatusLoad(p) ==
    /\ ~Crashed
    /\ loc[p].pc = "statusLoad"
    /\ loc' = [loc EXCEPT ![p].pc = "statusBump",
                          ![p].index = sitems[loc[p].sitem].Index]
    /\ UNCHANGED <<now, store, status, seen>>
    /\ Finish(items, sitems)

\* initCacheItem: the found status item's Index is set to 1 or incremented,
\* in place.
StatusBump(p) ==
    /\ ~Crashed
    /\ loc[p].pc = "statusBump"
    /\ LET l == loc[p] IN
       /\ loc' = [loc EXCEPT ![p].pc = "readTotal"]
       /\ UNCHANGED <<now, store, status, seen>>
       /\ Finish(items,
                 [sitems EXCEPT ![l.sitem].Index =
                     BumpIndex(@, l.index, Len(l.args) \div 2)])

\* initCacheItem: total = args[(statusItem.Index*2)-2]; an index outside
\* the slice panics.
ReadTotal(p) ==
    /\ ~Crashed
    /\ loc[p].pc = "readTotal"
    /\ LET l == loc[p]
           i == sitems[l.sitem].Index * 2 - 2
       IN
       /\ loc' = IF i \in 0..(Len(l.args) - 1)
                 THEN [loc EXCEPT ![p].pc = "readDuration",
                                  ![p].total = l.args[i + 1],
                                  ![p].tier = sitems[l.sitem].Index]
                 ELSE [loc EXCEPT ![p].pc = "panic"]
       /\ UNCHANGED <<now, store, status, seen>>
       /\ Finish(items, sitems)

\* initCacheItem: duration = args[(statusItem.Index*2)-1]
ReadDuration(p) ==
    /\ ~Crashed
    /\ loc[p].pc = "readDuration"
    /\ LET l == loc[p]
           i == sitems[l.sitem].Index * 2 - 1
       IN
       /\ loc' = IF i \in 0..(Len(l.args) - 1)
                 THEN [loc EXCEPT ![p].pc = "readIndex",
                                  ![p].duration = l.args[i + 1]]
                 ELSE [loc EXCEPT ![p].pc = "panic"]
       /\ UNCHANGED <<now, store, status, seen>>
       /\ Finish(items, sitems)

\* initCacheItem: Index: statusItem.Index, read for the item that replaces
\* the found one.
ReadIndex(p) ==
    /\ ~Crashed
    /\ loc[p].pc = "readIndex"
    /\ loc' = [loc EXCEPT ![p].pc = "statusReplace",
                          ![p].newIndex = sitems[loc[p].sitem].Index]
    /\ UNCHANGED <<now, store, status, seen>>
    /\ Finish(items, sitems)

\* initCacheItem: setStatusMapValue of a new status item.
StatusReplace(p) ==
    /\ ~Crashed
    /\ loc[p].pc = "statusReplace"
    /\ LET l == loc[p]
           a == Alloc(sitems)
           item == [Index |-> l.newIndex,
                    Expire |-> StatusExpire(now, l.duration), sel |-> now,
                    made |-> l.newIndex]
       IN
       /\ status' = MapPut(status, StatusKey(l.key), a)
       /\ loc' = [loc EXCEPT ![p].pc = "newItem", ![p].sitem = 0]
       /\ UNCHANGED <<now, store, seen>>
       /\ Finish(items, [x \in DOMAIN sitems \cup {a} |->
                            IF x = a THEN item ELSE sitems[x]])

\* initCacheItem of a policy of several tiers: the new cache item.
NewItem(p) ==
    /\ ~Crashed
    /\ loc[p].pc = "newItem"
    /\ Publish(p, loc[p])

\* Remove: both deletes under the write lock.
Remove(p, id) ==
    /\ ~Crashed
    /\ Ready(p)
    /\ LET key == Key(id)
           statusKey == StatusKey(Key(id))
       IN
       /\ store' = RemoveStore(store, key)
       /\ status' = RemoveStatus(status, statusKey)
       /\ loc' = [loc EXCEPT ![p] =
                    [Idle EXCEPT !.pc = "done", !.op = "Remove", !.id = id,
                                 !.key = key, !.pre = PreOf(key, <<>>),
                                 !.spre = SPreOf(key)]]
       /\ seen' = SeenAtRemove(p, key)
       /\ UNCHANGED now
       /\ Finish(items, sitems)

\* Clean: the range statement starts.  It takes no lock.
CleanBegin(p) ==
    /\ ~Crashed
    /\ Ready(p)
    /\ loc' = [loc EXCEPT ![p] =
                 [Idle EXCEPT !.pc = "cleanRange", !.op = "Clean",
                              !.snap = store, !.swept = now,
                              !.found = [k \in DOMAIN store |->
                                            items[store[k]].Expire],
                              !.sfound = [k \in DOMAIN status |->
                                             sitems[status[k]].Index]]]
    /\ UNCHANGED <<now, store, status, seen>>
    /\ Finish(items, sitems)

\* Another goroutine wrote the store map since the last step of this Clean.
Written(p) == store # loc[p].snap

\* Clean: the keys the range statement can produce next.  Without a write
\* by another goroutine they are the keys of the map it has not produced;
\* after one, the iteration raced with the write and any key of the map
\* can come.
CleanNext(p) ==
    IF loc[p].dirty \/ Written(p) THEN DOMAIN store
    ELSE DOMAIN store \ loc[p].visited

\* Clean: one iteration.  An item whose Expire is before time.Now() has
\* l.Remove called with its map key, so Remove puts the prefix before the
\* key once more and deletes under that key.
CleanVisit(p) ==
    /\ ~Crashed
    /\ loc[p].pc = "cleanRange"
    /\ \E key \in CleanNext(p) :
           /\ IF ExpireBefore(items[store[key]].Expire, now)
              THEN /\ store' = RemoveStore(store, Key(key))
                   /\ status' = RemoveStatus(status, StatusKey(Key(key)))
                   /\ seen' = SeenAtRemove(p, Key(key))
              ELSE UNCHANGED <<store, status, seen>>
           /\ loc' = [loc EXCEPT ![p].visited = @ \cup {key},
                                 ![p].snap = store',
                                 ![p].dirty = @ \/ Written(p)]
           /\ UNCHANGED now
           /\ Finish(items, sitems)

\* Clean: the range statement ends: every key was produced, or the
\* iteration raced with a write and skips what is left.
CleanEnd(p) ==
    /\ ~Crashed
    /\ loc[p].pc = "cleanRange"
    /\ loc[p].dirty \/ Written(p) \/ DOMAIN store \subseteq loc[p].visited
    /\ loc' = [loc EXCEPT ![p] =
                 [Idle EXCEPT !.pc = "done", !.op = "Clean",
                              !.swept = loc[p].swept,
                              !.found = loc[p].found,
                              !.sfound = loc[p].sfound,
                              !.ended = now,
                              !.dirty = loc[p].dirty \/ Written(p)]]
    /\ UNCHANGED <<now, store, status, seen>>
    /\ Finish(items, sitems)

\* Clean: the range statement meets a write of the map by another
\* goroutine, and the runtime stops the program (concurrent map iteration
\* and map write).
CleanFault(p) ==
    /\ ~Crashed
    /\ loc[p].pc = "cleanRange"
    /\ Written(p)
    /\ loc' = [loc EXCEPT ![p].pc = "panic"]
    /\ UNCHANGED <<now, store, status, seen>>
    /\ Finish(items, sitems)

\* The goroutine New starts with go limiter.cleanCache().
Sweeper == NProcs

\* cleanCache: the range statement receives a tick from l.ticker.C.
TickerFire(p) ==
    /\ ~Crashed
    /\ Ready(p)
    /\ loc' = [loc EXCEPT ![p] =
                 [Idle EXCEPT !.pc = "cleanCache", !.op = "cleanCache",
                              !.swept = now]]
    /\ UNCHANGED <<now, store, status, seen>>
    /\ Finish(items, sitems)

\* cleanCache: the body of the loop, var _ = now, and back to the range
\* statement.  It calls nothing.
CleanCacheBody(p) ==
    /\ ~Crashed
    /\ loc[p].pc = "cleanCache"
    /\ loc' = [loc EXCEPT ![p].pc = "done"]
    /\ UNCHANGED <<now, store, status, seen>>
    /\ Finish(items, sitems)

\* Count: len(l.store) under the read lock.
Count(p) ==
    /\ ~Crashed
    /\ Ready(p)
    /\ loc' = [loc EXCEPT ![p] =
                 [Idle EXCEPT !.pc = "done", !.op = "Count",
                              !.rTotal = Cardinality(DOMAIN store),
                              !.g0 = UsedIds]]
    /\ UNCHANGED <<now, store, status, seen>>
    /\ Finish(items, sitems)

\* A millisecond passes.
Tick ==
    /\ now < MaxTime
    /\ now' = now + 1
    /\ UNCHANGED <<store, status, items, sitems, loc, seen>>

(* --------------------------- specifications --------------------------- *)

\* The steps of Get with a policy of one tier.
StepGet(p, policies) ==
    \/ \E id \in Ids, policy \in policies : GetCall(p, id, policy)
    \/ GetLimit(p)
    \/ AddRemaining(p)
    \/ GetResult(p)
    \/ InitCacheItem(p)

\* The steps only a policy of several tiers takes.
StepTiers(p) ==
    \/ StatusInit(p)
    \/ StatusLoad(p)
    \/ StatusBump(p)
    \/ ReadTotal(p)
    \/ ReadDuration(p)
    \/ ReadIndex(p)
    \/ StatusReplace(p)
    \/ NewItem(p)

\* The goroutines call Get concurrently, with a policy of one tier.
Next == Tick \/ \E p \in Procs : StepGet(p, ConcPolicies)

Spec == Init /\ [][Next]_vars

\* The goroutines call Get concurrently on a window of quota 3.
NextLive == Tick \/ \E p \in Procs : StepGet(p, LivePolicies)

SpecLive == Init /\ [][NextLive]_vars

\* The Gets of the key that returned or are running.
Started(key) ==
    (IF key \in DOMAIN seen THEN seen[key].gets ELSE 0)
        + Cardinality({p \in Procs : InFlight(p) /\ loc[p].key = key})

\* The goroutines call Get concurrently with one policy of two tiers.
NextTiers ==
    \/ Tick
    \/ \E p \in Procs :
           \/ \E id \in Ids, policy \in TierPolicies :
                  Started(Key(id)) < MaxTierGets /\ GetCall(p, id, policy)
           \/ GetLimit(p)
           \/ AddRemaining(p)
           \/ GetResult(p)
           \/ InitCacheItem(p)
           \/ StepTiers(p)

SpecTiers == Init /\ [][NextTiers]_vars

\* The goroutines call Get concurrently for two identifiers, and Count.
NextIds ==
    \/ Tick
    \/ \E p \in Procs :
           \/ \E id \in ManyIds, policy \in IdPolicies :
                  Started(Key(id)) < MaxIdGets /\ GetCall(p, id, policy)
           \/ GetLimit(p)
           \/ AddRemaining(p)
           \/ GetResult(p)
           \/ InitCacheItem(p)
           \/ Count(p)

SpecIds == Init /\ [][NextIds]_vars

\* The goroutines call Get and Clean concurrently.
NextClean ==
    \/ Tick
    \/ \E p \in Procs :
           \/ \E id \in Ids, policy \in CleanPolicies :
                  Started(Key(id)) < MaxIdGets /\ GetCall(p, id, policy)
           \/ GetLimit(p)
           \/ AddRemaining(p)
           \/ GetResult(p)
           \/ InitCacheItem(p)
           \/ CleanBegin(p)
           \/ CleanVisit(p)
           \/ CleanEnd(p)
           \/ CleanFault(p)

SpecClean == Init /\ [][NextClean]_vars

\* One goroutine calls the limiter: each call returns before the next one.
NextSeq ==
    \/ Tick
    \/ StepGet(1, SeqPolicies)
    \/ StepTiers(1)
    \/ \E id \in Ids : Remove(1, id)
    \/ Count(1)
    \/ CleanBegin(1)
    \/ CleanVisit(1)
    \/ CleanEnd(1)

SpecSeq == Init /\ [][NextSeq]_vars

\* One goroutine calls Get for an identifier and for the identifier that
\* is spelled like its key, and Clean.
NextPrefix ==
    \/ Tick
    \/ \E id \in PrefixIds, policy \in PrefixPolicies :
           Started(Key(id)) < MaxIdGets /\ GetCall(1, id, policy)
    \/ GetLimit(1)
    \/ AddRemaining(1)
    \/ GetResult(1)
    \/ InitCacheItem(1)
    \/ StepTiers(1)
    \/ CleanBegin(1)
    \/ CleanVisit(1)
    \/ CleanEnd(1)

SpecPrefix == Init /\ [][NextPrefix]_vars

\* One goroutine calls Get while the goroutine New started receives the
\* ticks of the ticker.
NextSweep ==
    \/ Tick
    \/ StepGet(1, CleanPolicies)
    \/ TickerFire(Sweeper)
    \/ CleanCacheBody(Sweeper)

\* The steps of a call of Get or Clean that has started, the one that
\* stops the program apart.
Progress(p) ==
    \/ GetLimit(p)
    \/ AddRemaining(p)
    \/ GetResult(p)
    \/ InitCacheItem(p)
    \/ CleanVisit(p)
    \/ CleanEnd(p)

\* The ticker keeps firing, the goroutine that receives its ticks keeps
\* running and a call that started goes on; the caller is free to stop
\* calling.
SpecSweep ==
    /\ Init
    /\ [][NextSweep]_vars
    /\ WF_vars(Progress(1))
    /\ WF_vars(TickerFire(Sweeper))
    /\ WF_vars(CleanCacheBody(Sweeper))

\* The goroutines call Get and Clean concurrently, and the scheduler lets
\* every call that started go on.
SpecReturn ==
    /\ Init
    /\ [][NextClean]_vars
    /\ \A p \in Procs : WF_vars(Progress(p))

(* ------------------------------- claims ------------------------------- *)

\* The calls that returned a Result.
Returned(p) == loc[p].pc = "done" /\ loc[p].op = "Get" /\ ~loc[p].err

\* The cache item that served the call was made by a call with the same
\* policy.
OwnWindow(l) == l.fresh \/ (l.pre # <<>> /\ l.pre[1].same)

TierCount(l) == Len(l.args) \div 2

\* C1: with one tier (Q, W), Q >= 1, and calls made one after the other,
\* the k-th call a window serves returns Total = Q and Remaining = Q - k
\* while k <= Q, and Remaining = -1 after that.
C1_SingleTierCountdown ==
    \A p \in Procs :
        LET l == loc[p] IN
        (Returned(p) /\ Len(l.args) = 2 /\ l.args[1] >= 1 /\ OwnWindow(l))
            => /\ l.rTotal = l.args[1]
               /\ l.rRemaining = IF l.k <= l.args[1] THEN l.args[1] - l.k ELSE -1

\* A window of quota 2 has served a fourth call, which got -1.
C1_Witness ==
    \E p \in Procs :
        /\ Returned(p) /\ loc[p].policy = <<2, 1>> /\ OwnWindow(loc[p])
        /\ loc[p].k = 4 /\ loc[p].rRemaining = -1

\* C2: under any interleaving of concurrent Gets, with quotas >= 1, the
\* Remaining of every cache item and of every Result is >= -1.
C2_NeverBelowMinusOne ==
    /\ \A a \in DOMAIN items : items[a].Total >= 1 => items[a].Remaining >= -1
    /\ \A p \in Procs :
           (Returned(p) /\ loc[p].args[1] >= 1) => loc[p].rRemaining >= -1

\* C3: for an identifier nothing was stored for and one tier (Q, W): once
\* Q concurrent Gets have all returned, a following Get in the same window
\* returns Total = Q and Remaining = -1.
C3_BurstExhausts ==
    \A p \in Procs :
        LET l == loc[p] IN
        (/\ Returned(p) /\ Len(l.args) = 2 /\ l.args[1] >= 1
         /\ l.g0 = l.args[1]
         /\ l.key \in DOMAIN seen /\ seen[l.key].ok
         /\ now <= seen[l.key].t1 + l.args[2])
            => l.rTotal = l.args[1] /\ l.rRemaining = -1

\* C4: with one tier (Q, W), the first Get made more than W after the
\* window started returns Total = Q and Remaining = Q - 1, whatever the
\* window's Remaining was.
C4_FreshAfterWindow ==
    \A p \in Procs :
        LET l == loc[p] IN
        (/\ Returned(p) /\ Len(l.args) = 2
         /\ l.pre # <<>> /\ l.pre[1].same /\ l.pre[1].late)
            => l.rTotal = l.args[1] /\ l.rRemaining = l.args[1] - 1

\* A Get found an exhausted window of quota 2 more than W old and got
\* Remaining = 1.
C4_Witness ==
    \E p \in Procs :
        /\ Returned(p) /\ loc[p].policy = <<2, 1>>
        /\ loc[p].pre # <<>> /\ loc[p].pre[1].same /\ loc[p].pre[1].late
        /\ loc[p].pre[1].used /\ loc[p].rRemaining = 1

\* The Result of a fresh window of tier j of the call's policy.
TierResult(l, j) ==
    /\ l.fresh
    /\ l.tier = j
    /\ l.rTotal = l.args[2 * j - 1]
    /\ l.rRemaining = l.args[2 * j - 1] - 1
    /\ l.rDuration = l.args[2 * j]

\* The call has a policy of several tiers and started a fresh window.
FreshTiered(p) == Returned(p) /\ TierCount(loc[p]) > 1 /\ loc[p].fresh

\* The call found a status item whose Expire had not passed.
StatusLive(l) == l.spre # <<>> /\ ~l.spre[1].late

\* The call found a window of its own policy that had served its quota
\* and whose duration had passed.
WindowSpent(l) ==
    l.pre # <<>> /\ l.pre[1].same /\ l.pre[1].used /\ l.pre[1].late

\* C5: with n tiers and calls made one after the other, the first window
\* of an identifier nothing is stored for uses tier 1; a window that
\* follows an exhausted and expired window of tier j < n, the status item
\* not yet expired, uses tier j + 1: that tier's Total, Remaining =
\* Total - 1 and Duration.
C5_NextTierPerWindow ==
    \A p \in Procs :
        LET l == loc[p] IN
        FreshTiered(p) =>
            /\ (l.pre = <<>> /\ l.spre = <<>>) => TierResult(l, 1)
            /\ (/\ WindowSpent(l) /\ StatusLive(l)
                /\ l.pre[1].tier < TierCount(l))
                   => TierResult(l, l.pre[1].tier + 1)

\* The third window of a policy of three tiers uses the third tier.
C5_Witness ==
    \E p \in Procs :
        /\ FreshTiered(p) /\ loc[p].policy = <<3, 1, 2, 1, 1, 1>>
        /\ WindowSpent(loc[p]) /\ StatusLive(loc[p])
        /\ loc[p].pre[1].tier = 2
        /\ loc[p].tier = 3 /\ loc[p].rTotal = 1 /\ loc[p].rRemaining = 0

\* C6: with n tiers, a fresh window started while the status item holds
\* index n and has not expired uses tier n again, and the index stays n.
C6_PinnedAtLastTier ==
    \A p \in Procs :
        LET l == loc[p] IN
        (/\ FreshTiered(p) /\ StatusLive(l)
         /\ l.pre # <<>> /\ l.pre[1].same
         /\ l.spre[1].Index = TierCount(l))
            => /\ TierResult(l, TierCount(l))
               /\ StatusKey(l.key) \in DOMAIN status
               /\ sitems[status[StatusKey(l.key)]].Index = TierCount(l)

\* C7: with several tiers, a fresh window started after the status item's
\* Expire uses tier 1, whatever index the status item holds.
C7_RestoreAfterStatusExpiry ==
    \A p \in Procs :
        LET l == loc[p] IN
        (FreshTiered(p) /\ l.spre # <<>> /\ l.spre[1].late)
            => TierResult(l, 1)

\* C8: a Get with an odd number of policy values returns the error and the
\* zero Result, and the step leaves both maps and every item as they were.
C8_OddPolicyRejected ==
    [][ \A p \in Procs :
            (/\ Ready(p)
             /\ loc'[p] # loc[p]
             /\ loc'[p].op = "Get"
             /\ Len(loc'[p].policy) % 2 = 1)
                => /\ loc'[p].pc = "done"
                   /\ loc'[p].err
                   /\ loc'[p].rTotal = 0
                   /\ loc'[p].rRemaining = 0
                   /\ UNCHANGED <<store, status, items, sitems>> ]_vars

\* A Get with three policy values returned the error while the identifier
\* had a cache item and a status item.
C8_Witness ==
    \E p \in Procs :
        /\ loc[p].pc = "done" /\ loc[p].op = "Get" /\ loc[p].err
        /\ loc[p].policy = <<2, 1, 1>>
        /\ loc[p].key \in DOMAIN store
        /\ StatusKey(loc[p].key) \in DOMAIN status

\* C9: a Get with an even number of policy values, one of them not
\* positive, returns an error.
C9_NonPositiveRejected ==
    \A p \in Procs :
        LET l == loc[p] IN
        (/\ l.pc = "done" /\ l.op = "Get"
         /\ Len(l.policy) % 2 = 0
         /\ \E i \in 1..Len(l.policy) : l.policy[i] <= 0)
            => l.err

\* What a Get leaves for an identifier nothing is stored for: the Result
\* of tier 1, a cache item of tier 1 that starts with the call, and, with
\* several tiers, a status item of index 1 (none with one tier).
FirstGetOutcome(l) ==
    /\ TierResult(l, 1)
    /\ l.key \in DOMAIN store
    /\ LET it == items[store[l.key]] IN
       /\ it.Total = l.args[1]
       /\ it.Remaining = l.args[1] - 1
       /\ it.Duration = l.args[2]
       /\ it.Expire = it.start + l.args[2]
       /\ l.rReset = it.Expire
    /\ IF TierCount(l) > 1
       THEN /\ StatusKey(l.key) \in DOMAIN status
            /\ LET st == sitems[status[StatusKey(l.key)]] IN
               /\ st.Index = 1
               /\ st.Expire = st.sel + 2 * l.args[2]
       ELSE StatusKey(l.key) \notin DOMAIN status

\* C10: a Get that follows Remove of its identifier returns what a Get of
\* an identifier nothing is stored for returns, and leaves the same cache
\* item and status item.
C10_RemoveThenGetIsFirstGet ==
    \A p \in Procs :
        LET l == loc[p] IN
        (Returned(p) /\ (l.afterRemove \/ (l.pre = <<>> /\ l.spre = <<>>)))
            => FirstGetOutcome(l)

\* A Get of two tiers followed a Remove that deleted a cache item and a
\* status item of index 2.
C10_Witness ==
    \E p \in Procs :
        /\ Returned(p) /\ loc[p].afterRemove /\ loc[p].removed = 2
        /\ loc[p].policy = <<2, 1, 1, 1>>
        /\ loc[p].rTotal = 2 /\ loc[p].rRemaining = 1

Quiet(a) == \A p \in Procs : loc[p].res # a

\* C12: when the concurrent Gets a live cache item served have all
\* returned, and they were no more than its quota, its Remaining is the
\* quota less the number of those Gets: with Remaining = R before N of
\* them, R - N after.
C12_NoLostDecrement ==
    \A a \in DOMAIN items :
        (Quiet(a) /\ items[a].rets <= items[a].Total)
            => items[a].Remaining = items[a].Total - items[a].rets

\* Two Gets were inside getLimit on one cache item of Remaining 2 at the
\* same time, and both have returned: its Remaining is 0.
C12_Witness ==
    \E a \in DOMAIN items :
        /\ Quiet(a) /\ items[a].Total = 3 /\ items[a].rets = 3
        /\ items[a].Remaining = 0
        /\ \A p \in Procs : Returned(p) /\ loc[p].overlap /\ ~loc[p].fresh

\* C13: under any interleaving of concurrent Gets with one policy of n
\* tiers, the index of the identifier's status item, and the index a Get
\* reads the policy with, is in 1..n: no Get reads past the policy's end.
C13_TierIndexInRange ==
    /\ ~Crashed
    /\ \A p \in Procs :
           LET l == loc[p] IN
           (l.op = "Get" /\ ~l.err /\ TierCount(l) > 1)
               => /\ l.sitem # 0 => sitems[l.sitem].Index \in 1..TierCount(l)
                  /\ StatusKey(l.key) \in DOMAIN status
                        => sitems[status[StatusKey(l.key)]].Index
                               \in 1..TierCount(l)

\* C14: when the concurrent Gets of k distinct identifiers have all
\* returned, with no Remove, Count returns k.
C14_CountIsDistinctIds ==
    \A p \in Procs :
        (loc[p].pc = "done" /\ loc[p].op = "Count" /\ loc[p].g0 >= 0)
            => loc[p].rTotal = loc[p].g0

\* Count returned 2 after Gets of two identifiers, of which two had run at
\* the same time.
C14_Witness ==
    \E p \in Procs :
        /\ loc[p].pc = "done" /\ loc[p].op = "Count"
        /\ loc[p].g0 = 2 /\ loc[p].rTotal = 2
        /\ \E a \in DOMAIN items : items[a].raced

\* C15: when Clean has returned and nothing else ran meanwhile, the store
\* holds no cache item whose Expire is before the instant Clean began.
C15_CleanLeavesNoExpired ==
    \A p \in Procs :
        (loc[p].pc = "done" /\ loc[p].op = "Clean" /\ ~loc[p].dirty)
            => \A key \in DOMAIN store :
                   ~(items[store[key]].Expire < loc[p].swept)

\* C16: Clean's pass over the store map is exclusive: in no state is a
\* Clean inside its range statement over a map that a Get or a Remove of
\* another goroutine has written since the Clean's last step.
C16_CleanPassExclusive ==
    \A p \in Procs : loc[p].pc = "cleanRange" => ~Written(p)

C19_ReturnsOwnDecrement ==
    \A p \in Procs :
        (Returned(p) /\ loc[p].own # <<>>)
            => loc[p].rRemaining = loc[p].own[1]

\* The status item of the call's identifier is the one the call found when
\* it started, with the same index, or there is none as there was none.
StatusAsFound(l) ==
    IF l.spre = <<>>
    THEN StatusKey(l.key) \notin DOMAIN status
    ELSE /\ StatusKey(l.key) \in DOMAIN status
         /\ status[StatusKey(l.key)] = l.spre[1].addr
         /\ sitems[l.spre[1].addr].Index = l.spre[1].Index

\* C20: a Get with several tiers that finds a cache item that has not
\* expired is served by it and leaves the identifier's status item as it
\* was: the same item, with the same index.
C20_LiveWindowKeepsStatus ==
    \A p \in Procs :
        LET l == loc[p] IN
        (Returned(p) /\ TierCount(l) > 1 /\ l.live)
            => ~l.fresh /\ StatusAsFound(l)

\* A Get of two tiers found the window of tier 2 live and the status item
\* at index 2.
C20_Witness ==
    \E p \in Procs :
        /\ Returned(p) /\ loc[p].policy = <<2, 1, 1, 2>> /\ loc[p].live
        /\ loc[p].spre # <<>> /\ loc[p].spre[1].Index = 2
        /\ ~loc[p].fresh /\ loc[p].rTotal = 1 /\ loc[p].rRemaining = -1

\* C21: a Get with one tier, or with the empty policy, leaves the status
\* map as it was, whether it found no cache item, an expired one or a live
\* one, and the window it starts is made from its one tier whatever status
\* item the identifier has.
C21_SingleTierKeepsStatus ==
    \A p \in Procs :
        LET l == loc[p] IN
        (Returned(p) /\ TierCount(l) = 1)
            => /\ StatusAsFound(l)
               /\ l.fresh => TierResult(l, 1)

\* A Get with one tier found an expired cache item and a status item of
\* index 2, and started a window.
C21_Witness ==
    \E p \in Procs :
        /\ Returned(p) /\ loc[p].policy = <<2, 1>> /\ loc[p].fresh
        /\ loc[p].pre # <<>> /\ loc[p].pre[1].late
        /\ loc[p].spre # <<>> /\ loc[p].spre[1].Index = 2
        /\ loc[p].rTotal = 2 /\ loc[p].rRemaining = 1

\* No Get is running.
NoGetRunning == \A q \in Procs : ~InFlight(q)

\* C22: the Expire of an identifier's status item is the instant its tier
\* was selected plus twice the window of the tier its index records.
\* Stated for the states in which no Get is running, the Gets all having
\* one policy.
C22_StatusExpireMatchesTier ==
    \A p \in Procs :
        LET l == loc[p] IN
        (/\ NoGetRunning /\ Returned(p) /\ TierCount(l) > 1
         /\ StatusKey(l.key) \in DOMAIN status)
            => LET st == sitems[status[StatusKey(l.key)]] IN
               st.Index \in 1..TierCount(l)
                   => st.Expire = st.sel + 2 * l.args[2 * st.Index]

\* The cache item is the window of one tier of the policy that made it:
\* Total and Duration are those of one tier, and Expire is the instant it
\* was made plus its Duration.
WindowOfOneTier(it) ==
    /\ it.Expire = it.start + it.Duration
    /\ \E j \in 1..(Len(it.args) \div 2) :
           it.Total = it.args[2 * j - 1] /\ it.Duration = it.args[2 * j]

\* C23: every Result carries as Reset the instant the window that served
\* the call was made plus that window's Duration, and every window has the
\* Total and the Duration of one tier of its policy, which the Results of
\* the calls with that policy report.
C23_ResultMatchesWindow ==
    /\ \A a \in DOMAIN items : WindowOfOneTier(items[a])
    /\ \A p \in Procs :
           LET l == loc[p] IN
           Returned(p)
               => /\ l.rReset = l.wstart + l.rDuration
                  /\ OwnWindow(l) =>
                         \E j \in 1..TierCount(l) :
                             /\ l.rTotal = l.args[2 * j - 1]
                             /\ l.rDuration = l.args[2 * j]

\* The calls of Clean that returned with no other goroutine writing the
\* store during them.
Swept(p) == loc[p].pc = "done" /\ loc[p].op = "Clean" /\ ~loc[p].dirty

\* The status map as Clean recorded it: each key with the Index of its item.
StatusNow == [k \in DOMAIN status |-> sitems[status[k]].Index]

\* C24: Clean leaves the status map as it found it: when a Clean has
\* returned and no call has come after it, the map has the status keys it
\* had when the Clean began, each with the Index it had.
C24_CleanKeepsStatus ==
    \A p \in Procs : Swept(p) => StatusNow = loc[p].sfound

\* C30: Clean deletes nothing of an identifier whose window has not
\* expired: a cache item that Clean found and whose Expire had not passed
\* when Clean returned is still in the store, and so is the status item of
\* its identifier if Clean found one.
C30_CleanSparesLive ==
    \A p \in Procs :
        Swept(p) =>
            \A k \in DOMAIN loc[p].found :
                ~ExpireBefore(loc[p].found[k], loc[p].ended) =>
                    /\ k \in DOMAIN store
                    /\ StatusKey(k) \in DOMAIN loc[p].sfound
                           => StatusKey(k) \in DOMAIN status

\* C25: a fresh window moves to a later tier only after an exhausted one:
\* with several tiers, a call that found a window of its own policy that
\* had served fewer calls than its quota starts a window of that window's
\* tier or an earlier one.
C25_EscalationNeedsExhaustion ==
    \A p \in Procs :
        LET l == loc[p] IN
        (/\ FreshTiered(p)
         /\ l.pre # <<>> /\ l.pre[1].same /\ ~l.pre[1].used)
            => l.tier <= l.pre[1].tier

\* The call found a cache item another policy had made, and the clock had
\* not passed its Expire when getLimit compared them.
LiveOfOtherPolicy(l) == l.live /\ l.pre # <<>> /\ ~l.pre[1].same

\* C26: a Get that finds a live cache item made with other policy values
\* leaves the item in the store with the Total, Duration and Expire it
\* had, and returns them, with the item's Remaining; the call's own policy
\* values go nowhere.  Calls are made one after the other.
C26_LiveWindowKeepsItsPolicy ==
    \A p \in Procs :
        LET l == loc[p] IN
        (Returned(p) /\ LiveOfOtherPolicy(l)) =>
            /\ ~l.fresh
            /\ l.key \in DOMAIN store
            /\ LET it == items[store[l.key]] IN
               /\ it.Total = l.had[1].Total
               /\ it.Duration = l.had[1].Duration
               /\ it.Expire = l.had[1].Expire
               /\ it.args # l.args
               /\ l.rTotal = l.had[1].Total
               /\ l.rDuration = l.had[1].Duration
               /\ l.rReset = l.had[1].Expire
               /\ l.rRemaining = it.Remaining

\* A Get with the policy (2, 1) was served by the window the default
\* policy had made.
C26_Witness ==
    \E p \in Procs :
        /\ Returned(p) /\ LiveOfOtherPolicy(loc[p])
        /\ loc[p].policy = <<2, 1>>
        /\ loc[p].rTotal = DefaultMax /\ loc[p].rDuration = DefaultDuration
        /\ loc[p].rRemaining = DefaultMax - 3

\* The store holds for the key a cache item whose Expire has passed.
Stale(key) ==
    key \in DOMAIN store /\ ExpireBefore(items[store[key]].Expire, now)

\* C27: with the ticker firing for ever, a cache item whose Expire has
\* passed does not stay in the store for ever: it is removed, unless a
\* later Get for its identifier replaces it.
C27_StaleEventuallySwept ==
    \A id \in Ids : Stale(Key(id)) ~> ~Stale(Key(id))

\* C28: under fair scheduling every call that started returns, whatever
\* the other goroutines call meanwhile.
C28_EveryCallReturns ==
    \A p \in Procs : InFlight(p) ~> Ready(p)

\* C29: one window boundary moves the tier index one step at most.  Every
\* Get that starts a fresh window of several tiers leaves a new status
\* item in the map, so the Gets that find the same status item are the
\* Gets of one boundary: the Index of a status item is never more than one
\* above the Index it was made with.
C29_BoundaryStepsOnce ==
    \A a \in DOMAIN sitems : sitems[a].Index <= sitems[a].made + 1

\* Every Get made for the key since it was last removed had this one
\* policy of several tiers.
OnePolicyOfTiers(key) ==
    /\ key \in DOMAIN seen
    /\ seen[key].ok
    /\ Len(seen[key].pol) > 2

\* C31: whenever no Get is running, the cache item and the status item of
\* an identifier used with one policy of several tiers agree: the Index
\* of the status item names a tier of the policy, and the cache item has
\* that tier's Total and Duration.
C31_ItemMatchesStatusTier ==
    (NoGetRunning /\ ~Crashed) =>
        \A key \in DOMAIN store :
            (OnePolicyOfTiers(key) /\ StatusKey(key) \in DOMAIN status) =>
                LET it == items[store[key]]
                    st == sitems[status[StatusKey(key)]]
                    args == Effective(seen[key].pol)
                IN
                /\ st.Index \in 1..(Len(args) \div 2)
                /\ it.Total = args[2 * st.Index - 1]
                /\ it.Duration = args[2 * st.Index]

====
